---- MODULE Spec2Model ----
(***************************************************************************)
(* Model of the two cores of nod.ai's desktop client:                      *)
(*                                                                         *)
(*  - the Electron main process (src/unnamed/part_004, lines 1-271): the   *)
(*    backend runtime extraction (ensureProductionBackend), the backend    *)
(*    child process (startBackend, its 'exit'/'error' handlers, cleanup)   *)
(*    and the host's termination handlers.  Specification: Spec.           *)
(*                                                                         *)
(*  - the chat page (src/frontend/src/pages/chat/Chat.tsx): send(), the    *)
(*    stream handlers onContent/onReasoning/onMeta, the catch/finally      *)
(*    block, stopStreaming, onNewChat and onSelectChat.                    *)
(*    Specification: ChatSpec.                                             *)
(*                                                                         *)
(* The two run in different processes and share no state, so each          *)
(* specification keeps the other half's variables at their initial value.  *)
(*                                                                         *)
(* Strings are sequences of tokens; WS is a whitespace token, so that      *)
(* String.prototype.trim is modelled by what it does.                      *)
(***************************************************************************)
EXTENDS Integers, Sequences, FiniteSets, TLC

\* ------------------------------------------------------------------------
\* Bounds of the model
\* ------------------------------------------------------------------------

\* startBackend() invocations per app launch
MaxStarts == 2
\* app launches (process lifetimes) in one behaviour
MaxLaunches == 2
\* inputs of the chat page in one behaviour: send() calls that start a stream,
\* events the streams deliver, clicks on a persisted conversation
MaxOps == 3

\* ------------------------------------------------------------------------
\* Strings
\* ------------------------------------------------------------------------

WS == " "

RECURSIVE TrimStart(_)
TrimStart(s) ==
  IF s = <<>> THEN <<>>
  ELSE IF Head(s) = WS THEN TrimStart(Tail(s)) ELSE s

RECURSIVE TrimEnd(_)
TrimEnd(s) ==
  IF s = <<>> THEN <<>>
  ELSE IF s[Len(s)] = WS THEN TrimEnd(SubSeq(s, 1, Len(s) - 1)) ELSE s

\* String.prototype.trim
Trim(s) == TrimEnd(TrimStart(s))

\* ------------------------------------------------------------------------
\* Electron main process: state
\* ------------------------------------------------------------------------

VARIABLES
  profile,                \* "dev" (VITE_DEV_SERVER_URL set) or "prod"
  pythonPresent,          \* the interpreter is where the profile has it: in
                          \* backend/venv ("dev"), in the archive's venv ("prod")
  appVersion,             \* app.getVersion()
  archivePresent,         \* fs.existsSync(archivePath)
  launch,                 \* number of the current app launch
  hostState,              \* "running", "quitting", "exited", "crashed"
  rtExists,               \* the runtime directory exists
  rtEntries,              \* its unpacked entries, each with the version it came from
  marker,                 \* the .version file: {} when absent, {text} when present
  backendProcess,         \* 0 (null) or the id of the child it refers to
  backendExtractPromise,  \* 0 (null) or the id of the extraction job it refers to
  jobs,                   \* the extraction promises of this process
  starts,                 \* the startBackend() invocations of this process
  children,               \* the children spawned by this process
  callerBlock,            \* a caller's synchronous block has not yet yielded
  unpackCount,            \* history: number of destructive re-extractions begun
  okVersion               \* history: version of the last call that returned the
                          \* runtime path, "" once the directory is touched again

\* ------------------------------------------------------------------------
\* Chat page: state
\* ------------------------------------------------------------------------

VARIABLES
  messages,               \* useState<ChatMessage[]>
  loading,                \* useState(false)
  currentReasoning,       \* useState("")
  chatId,                 \* useState<number | null>: 0 is null
  assistantReasoning,     \* useState<Record<number, string>>
  contentStarted,         \* useState(false)
  abortController,        \* 0 (null) or the session whose controller it holds
  sessions,               \* the send() calls that reached streamChat
  selects,                \* getChatMessages(id) requests in flight
  nSelects                \* history: number of onSelectChat calls

supVars ==
  <<profile, pythonPresent, appVersion, archivePresent, launch, hostState, rtExists,
    rtEntries, marker, backendProcess, backendExtractPromise, jobs, starts,
    children, callerBlock, unpackCount, okVersion>>

chatVars ==
  <<messages, loading, currentReasoning, chatId, assistantReasoning,
    contentStarted, abortController, sessions, selects, nSelects>>

vars == <<supVars, chatVars>>

\* ------------------------------------------------------------------------
\* Electron main process: files
\* ------------------------------------------------------------------------

Versions == {"1.0.0", "1.1.0"}

\* the interpreter inside the runtime directory (venv/bin/python, or
\* venv\Scripts\python.exe on Windows)
PythonPath == "venv/python"

\* The entries of backend.tar.gz in archive order.  The packaging script always
\* packs app and venv and packs the settings/requirements files only when they
\* exist, so the archive of one version may hold an entry the next one lacks.
ArchiveNames(v) ==
  <<"app", "venv">>
  \o (IF pythonPresent THEN <<PythonPath>> ELSE <<>>)
  \o (IF v = "1.0.0" THEN <<"settings.json">> ELSE <<>>)

EntriesOf(v) ==
  {[name |-> ArchiveNames(v)[i], ver |-> v] : i \in 1..Len(ArchiveNames(v))}

\* fs.existsSync(path.join(runtimeDir, name))
ExistsInRuntime(name) == rtExists /\ \E e \in rtEntries : e.name = name

\* the version whose complete, marked unpack the runtime directory holds ("" if none)
CompleteVersion ==
  IF \E v \in Versions : rtExists /\ rtEntries = EntriesOf(v) /\ marker = {<<v>>}
  THEN CHOOSE v \in Versions : rtEntries = EntriesOf(v) /\ marker = {<<v>>}
  ELSE ""

\* what the marker set holds for a .version file that exists and cannot be read
\* (no permission, an I/O error, a directory of that name)
Unreadable == <<"EACCES">>

\* line 58: fs.readFileSync throws when the file cannot be read; it is called
\* only inside the two existsSync tests of lines 56-57
ReadThrows == ExistsInRuntime("venv") /\ marker = {Unreadable}

NeedsExtractAlways == TRUE

NeedsExtractVenvOnly == ~(rtExists /\ \E e \in rtEntries : e.name = "venv")

NeedsExtractIgnoresVersion == ~(ExistsInRuntime("venv") /\ marker # {})

\* lines 55-61: extract unless venv and the marker exist and the trimmed marker
\* equals the current version
NeedsExtract ==
  IF ExistsInRuntime("venv") /\ marker # {}
  THEN \E text \in marker : Trim(text) # <<appVersion>>
  ELSE TRUE

ExtractNeverJoins == FALSE

\* line 38: a pending or settled extraction promise is returned as it is
ExtractJoin == backendExtractPromise # 0

RmKeepsEntries == rtEntries

\* line 65: fs.promises.rm(runtimeDir, {recursive, force}) leaves nothing
RmEntries == {}

\* lines 67-70: tar.x writes one entry into runtimeDir, replacing a same-named one
Unpacked(entries, name) ==
  {e \in entries : e.name # name} \cup {[name |-> name, ver |-> appVersion]}

\* line 71: the marker holds the version string as it is
MarkerText == <<appVersion>>

\* ------------------------------------------------------------------------
\* Electron main process: promises, invocations, children
\* ------------------------------------------------------------------------

StartIds == 1..MaxStarts

NoJob ==
  [pc |-> "none", idx |-> 0,
   \* history:
   preVersion |-> "",     \* CompleteVersion when the promise was created
   prePartial |-> FALSE,  \* PartialRuntime when the promise was created
   failedAt |-> ""]       \* the step whose failure rejected the promise
NoStart ==
  [pc |-> "idle", job |-> 0,
   \* history, recorded when the invocation is made:
   overlap |-> {},        \* the invocations still in flight
   pendingAtCall |-> {},  \* the extraction promises still pending
   okAtCall |-> "",       \* okVersion
   unpacksAtCall |-> 0,   \* unpackCount
   failedAtCall |-> {},   \* the extraction promises whose rejection was handled
   rejectedAtCall |-> {}, \* those rejected, their catch handler still queued
   outcome |-> "pending"] \* how the promise startBackend() returned has settled

PendingJobs == {j \in StartIds : jobs[j].pc \in {"rm", "mkdir", "untar", "write"}}

\* the extraction promises that were rejected and whose catch handler has run
FailedJobs == {j \in StartIds : jobs[j].pc = "caught"}

\* the extraction promises rejected whose catch handler has not run yet
RejectedJobs == {j \in StartIds : jobs[j].pc = "rejected"}

HostAlive == hostState \in {"running", "quitting"}

InFlight(s) == starts[s].pc \in {"awaiting", "resolved"}

\* the continuation of invocation s after `await resolveBackendCommand()` can run
Resumable(s) ==
  \/ starts[s].pc = "resolved"
  \/ /\ starts[s].pc = "awaiting"
     /\ jobs[starts[s].job].pc \in {"resolved", "caught"}

\* a promise reaction is queued: it runs before any further event is handled
MicrotaskPending ==
  \/ \E j \in StartIds : jobs[j].pc = "rejected"
  \/ \E s \in StartIds : Resumable(s)

\* lines 190-201: cleanup() signals the child backendProcess refers to
CleanupChildren ==
  IF backendProcess # 0
  THEN [children EXCEPT ![backendProcess] = IF @ = "alive" THEN "signalled" ELSE @]
  ELSE children

\* an extraction was interrupted between its rm and its marker write: the
\* directory is there without a marker, or a promise of this process failed there
PartialRuntime ==
  \/ rtExists /\ marker = {}
  \/ \E k \in StartIds : jobs[k].failedAt \in {"mkdir", "untar", "write"}

\* a promise created now, at step pc
BegunJob(pc) ==
  [pc |-> pc, idx |-> 0, preVersion |-> CompleteVersion,
   prePartial |-> PartialRuntime, failedAt |-> ""]

ArchiveNeverMissing == FALSE

\* line 47: !fs.existsSync(archivePath)
ArchiveMissing == ~archivePresent

\* lines 42-76, up to the first await: the body of the extraction promise
ExtractBegin(s) ==
  IF ArchiveMissing
  THEN \* lines 47-49: throw, the promise is rejected
       /\ jobs' = [jobs EXCEPT ![s] = BegunJob("rejected")]
       /\ UNCHANGED <<unpackCount, okVersion>>
  ELSE IF ReadThrows
  THEN \* line 58 throws, the promise is rejected
       /\ jobs' = [jobs EXCEPT ![s] = BegunJob("rejected")]
       /\ UNCHANGED <<unpackCount, okVersion>>
  ELSE IF NeedsExtract
  THEN \* line 65: rm is issued
       /\ jobs' = [jobs EXCEPT ![s] = BegunJob("rm")]
       /\ unpackCount' = unpackCount + 1
       /\ okVersion' = ""
  ELSE \* line 75
       /\ jobs' = [jobs EXCEPT ![s] = BegunJob("resolved")]
       /\ unpackCount' = unpackCount
       /\ okVersion' = appVersion

\* lines 37-83 as called from resolveBackendCommand (line 101) by invocation s
EnsureProductionBackend(s) ==
  IF ExtractJoin
  THEN /\ starts' = [starts EXCEPT ![s].pc = "awaiting", ![s].job = backendExtractPromise,
                                   ![s].overlap = {t \in StartIds : InFlight(t)},
                                   ![s].pendingAtCall = PendingJobs,
                                   ![s].okAtCall = okVersion,
                                   ![s].unpacksAtCall = unpackCount,
                                   ![s].failedAtCall = FailedJobs,
                                   ![s].rejectedAtCall = RejectedJobs]
       /\ UNCHANGED <<backendExtractPromise, jobs, unpackCount, okVersion>>
  ELSE /\ starts' = [starts EXCEPT ![s].pc = "awaiting", ![s].job = s,
                                   ![s].overlap = {t \in StartIds : InFlight(t)},
                                   ![s].pendingAtCall = PendingJobs,
                                   ![s].okAtCall = okVersion,
                                   ![s].unpacksAtCall = unpackCount,
                                   ![s].failedAtCall = FailedJobs,
                                   ![s].rejectedAtCall = RejectedJobs]
       /\ backendExtractPromise' = s
       /\ ExtractBegin(s)

GuardNeverHolds == FALSE

\* line 120: if (backendProcess)
AlreadyStarted == backendProcess # 0

\* lines 119-125: startBackend() up to its await
StartBackend(s) ==
  /\ HostAlive
  /\ starts[s].pc = "idle"
  /\ \A t \in StartIds : t < s => starts[t].pc # "idle"
  /\ ~MicrotaskPending \/ callerBlock
  /\ callerBlock' = TRUE
  /\ IF AlreadyStarted
     THEN \* lines 120-122
          /\ starts' = [starts EXCEPT ![s].pc = "returned", ![s].outcome = "fulfilled"]
          /\ UNCHANGED <<backendExtractPromise, jobs, unpackCount, okVersion>>
     ELSE IF profile = "dev"
     THEN \* lines 88-99
          /\ starts' = [starts EXCEPT ![s].pc = "resolved",
                                      ![s].overlap = {t \in StartIds : InFlight(t)}]
          /\ UNCHANGED <<backendExtractPromise, jobs, unpackCount, okVersion>>
     ELSE EnsureProductionBackend(s)
  /\ UNCHANGED <<profile, pythonPresent,
                 appVersion, archivePresent, launch, hostState,
                 rtExists, rtEntries, marker, backendProcess, children>>
  /\ UNCHANGED chatVars

\* lines 132-135: spawn, backendProcess is the new child
SpawnedHandle(s) == s

\* the interpreter path of the resolved command exists (lines 90-92, 102-104)
PythonExists ==
  IF profile = "dev" THEN pythonPresent ELSE ExistsInRuntime(PythonPath)

\* lines 106-108: the packaged profile throws when the interpreter is missing;
\* lines 88-99: the development profile returns its command unchecked
CommandResolved(s) ==
  \/ starts[s].pc = "resolved"
  \/ jobs[starts[s].job].pc = "resolved" /\ ExistsInRuntime(PythonPath)

\* lines 148-150: the catch block logs the error and does not rethrow; the
\* async function returns and its promise is fulfilled
CaughtOutcome == "fulfilled"

\* lines 101-116 and 125-150: the continuation of startBackend() after its await
StartBackendResume(s) ==
  /\ HostAlive
  /\ Resumable(s)
  /\ \A t \in StartIds : t < s => ~Resumable(t)
  /\ callerBlock' = FALSE
  /\ IF CommandResolved(s)
     THEN \* spawn of a missing file returns a handle that emits 'error'
          /\ starts' = [starts EXCEPT ![s].pc = "spawned", ![s].outcome = "fulfilled"]
          /\ children' = [children EXCEPT
                            ![s] = IF PythonExists THEN "alive" ELSE "failing"]
          /\ backendProcess' = SpawnedHandle(s)
     ELSE \* the extraction failed, or lines 106-108; caught at lines 148-150
          /\ starts' = [starts EXCEPT ![s].pc = "failed", ![s].outcome = CaughtOutcome]
          /\ UNCHANGED <<children, backendProcess>>
  /\ UNCHANGED <<profile, pythonPresent,
                 appVersion, archivePresent, launch, hostState,
                 rtExists, rtEntries, marker, backendExtractPromise, jobs,
                 unpackCount, okVersion>>
  /\ UNCHANGED chatVars

PromiseKept == backendExtractPromise

\* line 79: backendExtractPromise = null
CaughtPromise == 0

\* lines 78-80: the catch handler of a rejected extraction promise
ExtractCatch(j) ==
  /\ HostAlive
  /\ jobs[j].pc = "rejected"
  /\ jobs' = [jobs EXCEPT ![j].pc = "caught"]
  /\ backendExtractPromise' = CaughtPromise
  /\ callerBlock' = FALSE
  /\ UNCHANGED <<profile, pythonPresent,
                 appVersion, archivePresent, launch, hostState,
                 rtExists, rtEntries, marker, backendProcess, starts, children,
                 unpackCount, okVersion>>
  /\ UNCHANGED chatVars

\* an event handled by the host: it runs once the queued promise reactions have run
EventTurn ==
  /\ HostAlive
  /\ ~MicrotaskPending
  /\ callerBlock' = FALSE

\* line 65 in progress: rm removes the directory's content piece by piece, the
\* marker file among the pieces, a directory after what it holds
ExtractRmPart(j) ==
  /\ EventTurn
  /\ jobs[j].pc = "rm"
  /\ rtExists
  /\ \/ /\ marker # {}
        /\ marker' = {}
        /\ UNCHANGED rtEntries
     \/ /\ \E e \in rtEntries :
             /\ e.name = "venv" => ~\E f \in rtEntries : f.name = PythonPath
             /\ rtEntries' = rtEntries \ {e}
        /\ UNCHANGED marker
  /\ UNCHANGED <<profile, pythonPresent,
                 appVersion, archivePresent, launch, hostState, rtExists,
                 backendProcess, backendExtractPromise, jobs, starts, children,
                 unpackCount, okVersion>>
  /\ UNCHANGED chatVars

\* line 65 completes
ExtractRm(j) ==
  /\ EventTurn
  /\ jobs[j].pc = "rm"
  /\ jobs' = [jobs EXCEPT ![j].pc = "mkdir"]
  /\ rtExists' = FALSE
  /\ rtEntries' = RmEntries
  /\ marker' = {}
  /\ UNCHANGED <<profile, pythonPresent,
                 appVersion, archivePresent, launch, hostState,
                 backendProcess, backendExtractPromise, starts, children,
                 unpackCount, okVersion>>
  /\ UNCHANGED chatVars

\* line 66 completes
ExtractMkdir(j) ==
  /\ EventTurn
  /\ jobs[j].pc = "mkdir"
  /\ jobs' = [jobs EXCEPT ![j].pc = "untar"]
  /\ rtExists' = TRUE
  /\ UNCHANGED <<profile, pythonPresent,
                 appVersion, archivePresent, launch, hostState,
                 rtEntries, marker, backendProcess, backendExtractPromise, starts,
                 children, unpackCount, okVersion>>
  /\ UNCHANGED chatVars

\* lines 67-70: tar.x unpacks the next entry; after the last one line 71 is issued
ExtractUntar(j) ==
  /\ EventTurn
  /\ jobs[j].pc = "untar"
  /\ LET names == ArchiveNames(appVersion)
         i == jobs[j].idx + 1
     IN /\ rtEntries' = Unpacked(rtEntries, names[i])
        /\ jobs' = [jobs EXCEPT ![j].idx = i,
                                ![j].pc = IF i = Len(names) THEN "write" ELSE "untar"]
  /\ UNCHANGED <<profile, pythonPresent,
                 appVersion, archivePresent, launch, hostState,
                 rtExists, marker, backendProcess, backendExtractPromise, starts,
                 children, unpackCount, okVersion>>
  /\ UNCHANGED chatVars

\* line 71 completes, line 75 resolves the promise
ExtractWrite(j) ==
  /\ EventTurn
  /\ jobs[j].pc = "write"
  /\ jobs' = [jobs EXCEPT ![j].pc = "resolved"]
  /\ marker' = {MarkerText}
  /\ okVersion' = appVersion
  /\ UNCHANGED <<profile, pythonPresent,
                 appVersion, archivePresent, launch, hostState,
                 rtExists, rtEntries, backendProcess, backendExtractPromise, starts,
                 children, unpackCount>>
  /\ UNCHANGED chatVars

\* lines 65-71: the awaited file operation fails, the promise is rejected
ExtractFail(j) ==
  /\ EventTurn
  /\ jobs[j].pc \in {"rm", "mkdir", "untar", "write"}
  /\ jobs' = [jobs EXCEPT ![j].pc = "rejected", ![j].failedAt = jobs[j].pc]
  /\ UNCHANGED <<profile, pythonPresent,
                 appVersion, archivePresent, launch, hostState,
                 rtExists, rtEntries, marker, backendProcess, backendExtractPromise,
                 starts, children, unpackCount, okVersion>>
  /\ UNCHANGED chatVars

HandleKept == backendProcess

\* lines 139 and 146: backendProcess = null
ClearedHandle == 0

\* the (code, signal) pairs of an 'exit' event: the child ended by itself with
\* a code, or was terminated by a signal and has no code
ExitEvents ==
  {[code |-> "0", signal |-> "null"], [code |-> "1", signal |-> "null"],
   [code |-> "null", signal |-> "SIGINT"], [code |-> "null", signal |-> "SIGKILL"]}

\* a child cleanup() has not signalled does not end by SIGINT (nothing else sends
\* it); one it has signalled may end by it, end by itself, or be killed from outside
ExitEventsOf(state) ==
  IF state = "signalled" THEN ExitEvents
  ELSE {ev \in ExitEvents : ev.signal # "SIGINT"}

\* line 143: code !== 0 && code !== null
Reported(ev) == ev.code # "0" /\ ev.code # "null"

\* lines 142-147: the child exits and its 'exit' handler runs
ChildExit(c, ev) ==
  /\ EventTurn
  /\ children[c] \in {"alive", "signalled"}
  /\ ev \in ExitEventsOf(children[c])
  /\ children' = [children EXCEPT ![c] = IF Reported(ev) THEN "reported" ELSE "exited"]
  /\ backendProcess' = ClearedHandle
  /\ UNCHANGED <<profile, pythonPresent,
                 appVersion, archivePresent, launch, hostState,
                 rtExists, rtEntries, marker, backendExtractPromise, jobs, starts,
                 unpackCount, okVersion>>
  /\ UNCHANGED chatVars

\* lines 137-140: the child could not be started and its 'error' handler runs
ChildError(c) ==
  /\ EventTurn
  /\ children[c] = "failing"
  /\ children' = [children EXCEPT ![c] = "failed"]
  /\ backendProcess' = ClearedHandle
  /\ UNCHANGED <<profile, pythonPresent,
                 appVersion, archivePresent, launch, hostState,
                 rtExists, rtEntries, marker, backendExtractPromise, jobs, starts,
                 unpackCount, okVersion>>
  /\ UNCHANGED chatVars

\* lines 222-224: app 'before-quit'
BeforeQuit ==
  /\ EventTurn
  /\ hostState = "running"
  /\ hostState' = "quitting"
  /\ children' = CleanupChildren
  /\ backendProcess' = 0
  /\ UNCHANGED <<profile, pythonPresent,
                 appVersion, archivePresent, launch, rtExists,
                 rtEntries, marker, backendExtractPromise, jobs, starts,
                 unpackCount, okVersion>>
  /\ UNCHANGED chatVars

\* process.platform. It is read by this handler alone, where "darwin" makes
\* the event do nothing, so it is an input of the event, not a variable.
Platforms == {"darwin", "other"}

\* lines 214-220: app 'window-all-closed'; app.quit() emits 'before-quit'
WindowAllClosed ==
  /\ EventTurn
  /\ hostState = "running"
  /\ \E platform \in Platforms :
       IF platform # "darwin"
       THEN /\ hostState' = "quitting"
            /\ children' = CleanupChildren
            /\ backendProcess' = 0
       ELSE UNCHANGED <<hostState, children, backendProcess>>
  /\ UNCHANGED <<profile, pythonPresent,
                 appVersion, archivePresent, launch, rtExists,
                 rtEntries, marker, backendExtractPromise, jobs, starts,
                 unpackCount, okVersion>>
  /\ UNCHANGED chatVars

\* lines 204-212: SIGINT or SIGTERM: cleanup(), process.exit(), 'exit' runs cleanup()
HostSignal(sig) ==
  /\ EventTurn
  /\ sig \in {"SIGINT", "SIGTERM"}
  /\ hostState' = "exited"
  /\ children' = CleanupChildren
  /\ backendProcess' = 0
  /\ UNCHANGED <<profile, pythonPresent,
                 appVersion, archivePresent, launch, rtExists,
                 rtEntries, marker, backendExtractPromise, jobs, starts,
                 unpackCount, okVersion>>
  /\ UNCHANGED chatVars

\* line 204: the app has quit, process 'exit' runs cleanup()
ProcessExit ==
  /\ EventTurn
  /\ hostState = "quitting"
  /\ hostState' = "exited"
  /\ children' = CleanupChildren
  /\ backendProcess' = 0
  /\ UNCHANGED <<profile, pythonPresent,
                 appVersion, archivePresent, launch, rtExists,
                 rtEntries, marker, backendExtractPromise, jobs, starts,
                 unpackCount, okVersion>>
  /\ UNCHANGED chatVars

\* the host is killed (SIGKILL, power loss): no handler runs
HostCrash ==
  /\ HostAlive
  /\ hostState' = "crashed"
  /\ callerBlock' = FALSE
  /\ UNCHANGED <<profile, pythonPresent,
                 appVersion, archivePresent, launch, rtExists,
                 rtEntries, marker, backendProcess, backendExtractPromise, jobs,
                 starts, children, unpackCount, okVersion>>
  /\ UNCHANGED chatVars

\* lines 23-24: the app is launched again, possibly as another version; the
\* runtime directory is what the last process left
Relaunch ==
  /\ hostState \in {"exited", "crashed"}
  /\ launch < MaxLaunches
  /\ launch' = launch + 1
  /\ appVersion' \in Versions
  /\ archivePresent' \in BOOLEAN
  /\ hostState' = "running"
  /\ backendProcess' = 0
  /\ backendExtractPromise' = 0
  /\ jobs' = [j \in StartIds |-> NoJob]
  /\ starts' = [s \in StartIds |-> NoStart]
  /\ children' = [c \in StartIds |-> "none"]
  /\ callerBlock' = FALSE
  /\ UNCHANGED <<profile, pythonPresent,
                 rtExists, rtEntries, marker, unpackCount, okVersion>>
  /\ UNCHANGED chatVars

\* ------------------------------------------------------------------------
\* Chat page: values
\* ------------------------------------------------------------------------

SessionIds == 1..MaxOps

\* what the user may have typed into the composer
Inputs == {<<>>, <<WS>>, <<"q", WS>>}

\* the model dropdown: nothing fetched yet, a cloud model, an open-source model
\* that is not downloaded
Models == {"", "cloud", "local"}

ContentChunks == {<<"a">>, <<"b">>}
ReasoningChunks == {<<"r">>}
ReasoningTokens == {"r"}

\* a conversation persisted before this page was opened, and the id the backend
\* gives a conversation it creates
StoredChat == 1
FreshChat == 2

\* an empty slot of a sparse array (reads as undefined)
Hole == [role |-> "hole", content |-> <<>>]

\* an index never used, for a session that has not started
NoSession ==
  [st |-> "none", aborted |-> FALSE, assistantIndex |-> 0,
   \* the values of the render whose send() started the session
   currentReasoning |-> <<>>, contentStarted |-> FALSE, chatId |-> 0,
   \* history
   metas |-> 0,           \* the metadata events delivered
   delivered |-> <<>>,    \* the content chunks delivered, concatenated
   aborts |-> 0,          \* abort() calls stopStreaming() made on its controller
   atAbort |-> <<>>,      \* delivered, when the controller was aborted
   reasoning |-> <<>>,    \* the reasoning chunks delivered, concatenated
   touched |-> FALSE,     \* since the session began, messages was changed by
                          \* something else than its onContent
   resetSince |-> FALSE,  \* since the session began, messages was reset or
                          \* replaced, and no send() has run since then
   reset |-> FALSE,       \* since the session began, messages was reset or replaced
   userMsg |-> <<>>,      \* the content of the user turn send() appended
   switched |-> FALSE,    \* since the session began, onNewChat() or onSelectChat()
                          \* has put another conversation on the page
   newChatSince |-> FALSE, \* since the session began onNewChat() has run, and
                          \* neither send() nor onSelectChat() after it
   rethrown |-> FALSE]    \* send() ended by throwing

ChatIdle ==
  /\ messages = <<>>
  /\ loading = FALSE
  /\ currentReasoning = <<>>
  /\ chatId = 0
  /\ assistantReasoning = <<>>
  /\ contentStarted = FALSE
  /\ abortController = 0
  /\ sessions = [s \in SessionIds |-> NoSession]
  /\ selects = [id \in {StoredChat} |-> 0]
  /\ nSelects = 0

\* the versions an earlier installation may have left unpacked in userData
InstalledBefore == {"1.0.0"}

Init ==
  /\ profile \in {"dev", "prod"}
  /\ pythonPresent \in BOOLEAN
  /\ appVersion \in Versions
  /\ archivePresent \in BOOLEAN
  /\ launch = 1
  /\ hostState = "running"
  /\ \* userData is fresh, or holds the runtime an earlier installation unpacked
     \/ rtExists = FALSE /\ rtEntries = {} /\ marker = {}
     \/ \E v \in InstalledBefore :
          /\ rtExists = TRUE
          /\ rtEntries = EntriesOf(v)
          /\ marker \in {{<<v>>}, {Unreadable}}
  /\ backendProcess = 0
  /\ backendExtractPromise = 0
  /\ jobs = [j \in StartIds |-> NoJob]
  /\ starts = [s \in StartIds |-> NoStart]
  /\ children = [c \in StartIds |-> "none"]
  /\ callerBlock = FALSE
  /\ unpackCount = 0
  /\ okVersion = ""
  /\ ChatIdle

Next ==
  \/ \E s \in StartIds : StartBackend(s)
  \/ \E s \in StartIds : StartBackendResume(s)
  \/ \E j \in StartIds : ExtractCatch(j)
  \/ \E j \in StartIds : ExtractRmPart(j)
  \/ \E j \in StartIds : ExtractRm(j)
  \/ \E j \in StartIds : ExtractMkdir(j)
  \/ \E j \in StartIds : ExtractUntar(j)
  \/ \E j \in StartIds : ExtractWrite(j)
  \/ \E j \in StartIds : ExtractFail(j)
  \/ \E c \in StartIds : \E ev \in ExitEvents : ChildExit(c, ev)
  \/ \E c \in StartIds : ChildError(c)
  \/ BeforeQuit
  \/ WindowAllClosed
  \/ \E sig \in {"SIGINT", "SIGTERM"} : HostSignal(sig)
  \/ ProcessExit
  \/ HostCrash
  \/ Relaunch

Spec == Init /\ [][Next]_vars

\* ------------------------------------------------------------------------
\* Electron main process: properties
\* ------------------------------------------------------------------------

Spawned == {s \in StartIds : starts[s].pc = "spawned"}

\* C1: of two startBackend() invocations, the second made before the first has
\* finished, at most one spawns a child, and backendProcess refers to that
\* child while it is alive and cleanup() has not run.
C1_SingleInstanceStart ==
  \A s \in StartIds : \A t \in starts[s].overlap :
    /\ ~(s \in Spawned /\ t \in Spawned)
    /\ \A c \in {s, t} : children[c] = "alive" => backendProcess = c

\* C2: once the host has exited through one of its termination handlers, no
\* child it spawned is still running without having been sent a signal.
C2_ShutdownGuarantee ==
  hostState = "exited" => \A c \in StartIds : children[c] # "alive"

\* C8: a call of ensureProductionBackend() made after a call for the same app
\* version has returned the runtime path (the directory untouched since) begins
\* no re-extraction and, the archive being present, returns the runtime path.
C8_ExtractionIdempotent ==
  \A s \in StartIds :
    (starts[s].job # 0 /\ starts[s].okAtCall = appVersion) =>
      /\ unpackCount = starts[s].unpacksAtCall
      /\ jobs[starts[s].job].pc \notin {"rm", "mkdir", "untar", "write"}
      /\ archivePresent => jobs[starts[s].job].pc = "resolved"

\* C8 witness: on a second launch of the same version a call found the runtime
\* left by the one extraction of the first launch and returned it.
C8_Witness ==
  \E s \in StartIds :
    /\ launch = 2
    /\ starts[s].job = s
    /\ starts[s].okAtCall = appVersion
    /\ jobs[s].pc = "resolved"
    /\ unpackCount = 1

\* C9: at most one extraction is in flight, and a call made while one is in
\* flight awaits that same promise.
C9_ExtractionJoin ==
  /\ Cardinality(PendingJobs) <= 1
  /\ \A s \in StartIds : \A j \in starts[s].pendingAtCall : starts[s].job = j

\* C9 witness: a second call joined the extraction begun by the first while it
\* was unpacking.
C9_Witness ==
  \E s \in StartIds :
    /\ starts[s].pendingAtCall # {}
    /\ starts[s].job # s
    /\ jobs[starts[s].job].pc = "untar"

\* C10: when a call that found a complete unpack of another version returns,
\* the runtime directory holds exactly the entries of the current archive and
\* the marker records the current version.
C10_VersionGatedReextraction ==
  \A j \in StartIds :
    (jobs[j].pc = "resolved" /\ jobs[j].preVersion \notin {"", appVersion}) =>
      /\ rtExists
      /\ rtEntries = EntriesOf(appVersion)
      /\ marker = {<<appVersion>>}

\* C10 witness: an upgrade from 1.0.0, whose archive holds an entry the new one
\* lacks, has been re-extracted.
C10_Witness ==
  \E j \in StartIds :
    /\ jobs[j].pc = "resolved"
    /\ jobs[j].preVersion = "1.0.0"
    /\ appVersion = "1.1.0"

\* the venv payload is absent, or the marker is absent, or its trimmed content
\* is not the current version
ExtractionDue ==
  \/ ~ExistsInRuntime("venv")
  \/ marker = {}
  \/ \E text \in marker \ {Unreadable} : Trim(text) # <<appVersion>>

RuntimeOnDisk == <<rtExists, rtEntries, marker>>

\* C20: with the archive present, a call of ensureProductionBackend() has a
\* remove-and-unpack under way exactly when the venv payload is absent, or the
\* marker is absent, or the trimmed marker differs from the app version;
\* otherwise it begins none and, the marker being readable, returns the runtime
\* path, and nothing on disk changes once a call has returned it.
C20_ExtractionDecision ==
  [][/\ \A s \in StartIds :
          (archivePresent /\ StartBackend(s) /\ starts'[s].job # 0) =>
            /\ ExtractionDue <=> jobs'[starts'[s].job].pc \in {"rm", "mkdir", "untar", "write"}
            /\ ExtractionDue <=> (unpackCount' = unpackCount + 1 \/ PendingJobs # {})
            /\ ~ExtractionDue => /\ marker # {Unreadable} => jobs'[starts'[s].job].pc = "resolved"
                                 /\ unpackCount' = unpackCount
     /\ (\E j \in StartIds : jobs[j].pc = "resolved") => RuntimeOnDisk' = RuntimeOnDisk]_vars

\* C20 witness: a call found venv and a marker of another version, and nothing
\* else amiss, and has issued the rm.
C20_Witness ==
  \E j \in StartIds :
    /\ jobs[j].pc = "rm"
    /\ appVersion = "1.1.0"
    /\ rtExists
    /\ rtEntries = EntriesOf("1.0.0")
    /\ marker = {<<"1.0.0">>}

\* C21: once the failure of an extraction promise has been handled,
\* backendExtractPromise no longer refers to it, and a call made after that
\* is not handed a failed promise; a pending extraction is always the one
\* backendExtractPromise refers to, no handler of an older one has cleared it.
C21_FailureNotSticky ==
  /\ \A j \in FailedJobs : backendExtractPromise # j
  /\ \A s \in StartIds :
       starts[s].job # 0 => starts[s].job \notin starts[s].failedAtCall
  /\ \A j \in PendingJobs : backendExtractPromise = j

\* C21 as stated: a call made after an extraction promise was rejected, handled
\* or not, is not handed that promise.
C21_AsStated ==
  \A s \in StartIds :
    starts[s].job # 0 =>
      starts[s].job \notin starts[s].failedAtCall \cup starts[s].rejectedAtCall

\* C21 witness: after the extraction of the first call failed while unpacking,
\* a second call of the same process has a fresh extraction under way.
C21_Witness ==
  \E s \in StartIds :
    /\ starts[s].failedAtCall # {}
    /\ \E j \in starts[s].failedAtCall : jobs[j].failedAt = "untar"
    /\ jobs[s].pc = "untar"
    /\ backendExtractPromise = s

\* C22: a startBackend() invocation whose resolveBackendCommand() failed (the
\* extraction failed, or the interpreter is missing from the runtime) ends as
\* a failure for its caller: the promise it returned is rejected.
C22_FailurePropagates ==
  \A s \in StartIds : starts[s].pc = "failed" => starts[s].outcome = "rejected"

\* the exit is abnormal: a code other than 0, or termination by a signal
Abnormal(ev) == ev.code # "0"

\* C23: the exit of a child is reported as a crash exactly when it is abnormal
\* and cleanup() had not signalled the child.
C23_CrashReporting ==
  [][\A c \in StartIds : \A ev \in ExitEvents :
       ChildExit(c, ev) =>
         (children'[c] = "reported" <=> (Abnormal(ev) /\ children[c] # "signalled"))]_vars

\* C24: with the archive present and a marker file that exists but cannot be
\* read, no call of ensureProductionBackend() fails at the decision: its
\* promise is not rejected there (it goes on to re-extract, as with no marker).
C24_UnreadableMarkerAsAbsent ==
  \A j \in StartIds :
    (archivePresent /\ marker = {Unreadable} /\ jobs[j].pc # "none") =>
      ~(jobs[j].pc \in {"rejected", "caught"} /\ jobs[j].failedAt = "")

\* C26: every child that is alive and that cleanup() has not signalled is the
\* one backendProcess refers to; and the 'exit' or 'error' event of a child
\* leaves backendProcess alone when it refers to another child.
C26_HandleTracksLiveChild ==
  /\ [](\A c \in StartIds : children[c] = "alive" => backendProcess = c)
  /\ [][\A c \in StartIds :
          (/\ children'[c] # children[c]
           /\ (\E ev \in ExitEvents : ChildExit(c, ev)) \/ ChildError(c)
           /\ backendProcess \notin {0, c}) =>
            backendProcess' = backendProcess]_vars

\* C30: in a process that finds no archive, every extraction promise is
\* rejected before any file operation, an invocation that called
\* ensureProductionBackend() spawns no child, and no step changes the runtime
\* directory or its marker.
C30_MissingArchiveUntouched ==
  /\ [](~archivePresent =>
          /\ \A j \in StartIds :
               jobs[j].pc # "none" =>
                 jobs[j].pc \in {"rejected", "caught"} /\ jobs[j].failedAt = ""
          /\ \A s \in StartIds :
               starts[s].job # 0 => starts[s].pc # "spawned" /\ children[s] = "none")
  /\ [][~archivePresent => RuntimeOnDisk' = RuntimeOnDisk]_vars

\* C30 witness: with a complete runtime of an earlier version on disk and no
\* archive, a call has failed and its invocation has ended without a child.
C30_Witness ==
  \E s \in StartIds :
    /\ ~archivePresent
    /\ starts[s].pc = "failed"
    /\ jobs[s].pc = "caught"
    /\ rtExists
    /\ marker = {<<"1.0.0">>}
    /\ appVersion = "1.1.0"

\* C12: with the interpreter missing from where the profile has it, no
\* startBackend() invocation reaches spawn and backendProcess stays null.
C12_FailFastMissingInterpreter ==
  ~pythonPresent =>
    /\ \A s \in StartIds : starts[s].pc # "spawned"
    /\ backendProcess = 0

StartBackendStep == \E s \in StartIds : StartBackend(s)

\* C13: a startBackend() call made while backendProcess is non-null puts no
\* invocation in flight (no command is resolved, no extraction joined or
\* begun), spawns nothing and leaves backendProcess and the disk as they are.
C13_StartNoOpWhileRunning ==
  [][(backendProcess # 0 /\ StartBackendStep) =>
       /\ \A s \in StartIds : InFlight(s)' => InFlight(s)
       /\ UNCHANGED <<backendProcess, backendExtractPromise, jobs, children,
                      unpackCount, rtExists, rtEntries, marker>>]_vars

\* C13 witness: a second invocation returned at once while the child of the
\* first was running.
C13_Witness ==
  \E s \in StartIds :
    /\ starts[s].pc = "returned"
    /\ backendProcess # 0
    /\ children[backendProcess] = "alive"

ChildEndStep ==
  \E c \in StartIds :
    /\ children'[c] # children[c]
    /\ (\E ev \in ExitEvents : ChildExit(c, ev)) \/ ChildError(c)

SpawnedChildren == {c \in StartIds : children[c] # "none"}

Invocations == {s \in StartIds : starts[s].pc # "idle"}

\* C17: the 'exit' and 'error' handlers clear backendProcess and spawn
\* nothing, nor start an invocation; there are never more children than
\* startBackend() invocations; and an invocation made with backendProcess
\* cleared does not return at the guard.
C17_NoAutomaticRestart ==
  /\ [](Cardinality(SpawnedChildren) <= Cardinality(Invocations))
  /\ [][ChildEndStep =>
          /\ backendProcess' = 0
          /\ SpawnedChildren' = SpawnedChildren
          /\ starts' = starts]_vars
  /\ [][\A s \in StartIds :
          (StartBackend(s) /\ backendProcess = 0) => starts'[s].pc # "returned"]_vars

\* C17 witness: after the first child exited, a second startBackend() call
\* spawned a second child.
C17_Witness ==
  /\ children[1] = "exited"
  /\ children[2] = "alive"
  /\ starts[2].overlap = {}
  /\ backendProcess = 2

\* the extraction promises that handed the runtime path to resolveBackendCommand
Handed == {j \in StartIds : jobs[j].pc = "resolved"}

\* C18: whenever ensureProductionBackend() has handed out the runtime path, the
\* runtime directory holds the complete unpack of the current app version, and
\* nothing else, with a marker that records that version.
C18_RuntimeInstallation ==
  Handed # {} =>
    /\ rtExists
    /\ rtEntries = EntriesOf(appVersion)
    /\ marker = {<<appVersion>>}

\* an extraction stopped, or stands (the host crashed), between its rm and its
\* marker write, and no later extraction has been begun
Interrupted(j) ==
  /\ \/ jobs[j].pc \in {"mkdir", "untar", "write"}
     \/ jobs[j].failedAt \in {"mkdir", "untar", "write"}
  /\ backendExtractPromise \in {0, j}

\* C11: while an extraction is between its rm and its marker write, and after
\* it failed or the host crashed there, the marker is absent; and a call that
\* finds the runtime such an interruption left returns the runtime path only
\* after a full re-extraction.
C11_ExtractionAtomicity ==
  /\ \A j \in StartIds : Interrupted(j) => marker = {}
  /\ \A j \in StartIds :
       (jobs[j].prePartial /\ jobs[j].pc = "resolved") =>
         /\ jobs[j].idx = Len(ArchiveNames(appVersion))
         /\ rtEntries = EntriesOf(appVersion)
         /\ marker = {<<appVersion>>}

\* C11 witness: after a crash in the middle of an unpack that had written venv,
\* the next launch re-extracted the runtime.
C11_Witness ==
  \E j \in StartIds :
    /\ launch = 2
    /\ jobs[j].prePartial
    /\ jobs[j].pc = "resolved"
    /\ unpackCount = 2

\* ------------------------------------------------------------------------
\* Chat page: operations
\* ------------------------------------------------------------------------
\* A handler called by a click or a key reads the state of the latest render;
\* the callbacks and the catch/finally block of send() read the values of the
\* render whose send() created them, which the session record keeps.
\*
\* The composer text (input) and the selected model (model) are set by the user
\* at any time, so a send() finds any of Inputs and any of Models: they are the
\* inputs of Send, and the resets of input (lines 77, 134, 156) leave no trace.

\* messages[i] of the JavaScript array (indices from 0); a missing one reads as a hole
At(msgs, i) == IF i + 1 \in 1..Len(msgs) THEN msgs[i + 1] ELSE Hole

\* copy[i] = v on a copy of msgs: a write past the end leaves empty slots
SetAt(msgs, i, v) ==
  [k \in 1..(IF i + 1 > Len(msgs) THEN i + 1 ELSE Len(msgs)) |->
    IF k = i + 1 THEN v ELSE IF k <= Len(msgs) THEN msgs[k] ELSE Hole]

\* {...prev, [i]: v}
Put(rec, i, v) == [k \in (DOMAIN rec) \cup {i} |-> IF k = i THEN v ELSE rec[k]]

ContentPrepended(existing, chunk) == chunk \o existing

\* line 94: (existing?.content || "") + chunk
ContentAppended(existing, chunk) == existing \o chunk

\* lines 89-97: the updater of onContent
WithContent(msgs, i, chunk) ==
  SetAt(msgs, i,
        [role |-> "assistant", content |-> ContentAppended(At(msgs, i).content, chunk)])

\* line 79
AssistantIndex == Len(messages) + 1

RECURSIVE EventsDelivered(_)
EventsDelivered(S) ==
  IF S = {} THEN 0
  ELSE LET s == CHOOSE x \in S : TRUE
       IN Len(sessions[s].delivered) + Len(sessions[s].reasoning) + sessions[s].metas
          + EventsDelivered(S \ {s})

\* the inputs taken so far
OpsUsed ==
  Cardinality({s \in SessionIds : sessions[s].st # "none"})
  + EventsDelivered(SessionIds) + nSelects

\* Composer.tsx lines 110-115 and 273-283: Enter always runs onSend; the button
\* runs onSend when nothing is being sent and it is not disabled
SendOffered(trigger, input, model) ==
  \/ trigger = "enter"
  \/ trigger = "button" /\ ~loading /\ Trim(input) # <<>> /\ model # ""

\* lines 65-72: send() returns early without input, without a model, or for an
\* open-source model that is not downloaded
SendAccepts(input, model) == Trim(input) # <<>> /\ model # "" /\ model # "local"

\* history: the sessions begun so far, but s, have seen messages changed
Touched(s) ==
  [t \in SessionIds |->
    IF sessions[t].st = "none" \/ t = s THEN sessions[t]
    ELSE [sessions[t] EXCEPT !.touched = TRUE]]

\* lines 64-104: send() up to its await of streamChat
Send(trigger, input, model) ==
  /\ SendOffered(trigger, input, model)
  /\ SendAccepts(input, model)
  /\ OpsUsed < MaxOps
  /\ \E s \in SessionIds :
       /\ sessions[s].st = "none"
       /\ \A t \in SessionIds : t < s => sessions[t].st # "none"
       /\ abortController' = s
       /\ sessions' =
            [t \in SessionIds |->
              IF t = s
              THEN [NoSession EXCEPT !.st = "open",
                                     !.assistantIndex = AssistantIndex,
                                     !.currentReasoning = currentReasoning,
                                     !.contentStarted = contentStarted,
                                     !.chatId = chatId,
                                     !.userMsg = Trim(input)]
              ELSE [Touched(s)[t] EXCEPT !.resetSince = FALSE, !.newChatSince = FALSE]]
  /\ messages' = messages \o <<[role |-> "user", content |-> Trim(input)],
                               [role |-> "assistant", content |-> <<>>]>>
  /\ currentReasoning' = <<>>
  /\ contentStarted' = FALSE
  /\ loading' = TRUE
  /\ UNCHANGED <<chatId, assistantReasoning, selects, nSelects>>
  /\ UNCHANGED supVars

\* streamChat hands a further event of session s to its handler: its promise
\* has not settled. An event buffered before the signal was aborted may still
\* arrive after it.
StreamDelivers(s) ==
  /\ sessions[s].st = "open"
  /\ OpsUsed < MaxOps

\* lines 87-98: onContent
OnContent(s, chunk) ==
  /\ StreamDelivers(s)
  /\ messages' = WithContent(messages, sessions[s].assistantIndex, chunk)
  /\ contentStarted' = IF ~sessions[s].contentStarted THEN TRUE ELSE contentStarted
  /\ sessions' = [Touched(s) EXCEPT ![s].delivered = @ \o chunk]
  /\ UNCHANGED <<loading, currentReasoning, chatId, assistantReasoning,
                 abortController, selects, nSelects>>
  /\ UNCHANGED supVars

ReasoningIntoContent(s, chunk) ==
  [messages |-> WithContent(messages, sessions[s].assistantIndex, chunk),
   assistantReasoning |-> assistantReasoning,
   currentReasoning |-> currentReasoning \o chunk]

\* line 99: the state onReasoning leaves
ReasoningUpdate(s, chunk) ==
  [messages |-> messages,
   assistantReasoning |-> assistantReasoning,
   currentReasoning |-> currentReasoning \o chunk]

\* line 99: onReasoning
OnReasoning(s, chunk) ==
  /\ StreamDelivers(s)
  /\ LET u == ReasoningUpdate(s, chunk)
     IN /\ messages' = u.messages
        /\ assistantReasoning' = u.assistantReasoning
        /\ currentReasoning' = u.currentReasoning
  /\ sessions' = [sessions EXCEPT ![s].reasoning = @ \o chunk]
  /\ UNCHANGED <<loading, chatId, contentStarted, abortController,
                 selects, nSelects>>
  /\ UNCHANGED supVars

\* the id of the metadata event: the conversation the request named, or the one
\* the backend created for it
MetaId(s) == IF sessions[s].chatId # 0 THEN sessions[s].chatId ELSE FreshChat

\* lines 100-103: onMeta
OnMeta(s) ==
  /\ StreamDelivers(s)
  /\ chatId' = MetaId(s)
  /\ sessions' = [sessions EXCEPT ![s].metas = @ + 1]
  /\ UNCHANGED <<messages, loading, currentReasoning, assistantReasoning,
                 contentStarted, abortController, selects, nSelects>>
  /\ UNCHANGED supVars

\* how streamChat settles: rejected with "Stream aborted" once its signal is
\* aborted, else resolved or rejected by a transport fault
StreamOutcomes(s) == IF sessions[s].aborted THEN {"aborted"} ELSE {"ok", "error"}

\* line 115: the currentReasoning the finally block reads
FlushedReasoning(s) == sessions[s].currentReasoning

\* lines 105-111: the catch block logs or ignores the error and throws nothing
CatchRethrows(outcome) == FALSE

\* lines 105-119: streamChat settles; catch and finally
StreamSettle(s, outcome) ==
  /\ sessions[s].st = "open"
  /\ outcome \in StreamOutcomes(s)
  /\ loading' = FALSE
  /\ abortController' = 0
  /\ IF FlushedReasoning(s) # <<>>
     THEN /\ assistantReasoning' =
               Put(assistantReasoning, sessions[s].assistantIndex, FlushedReasoning(s))
          /\ currentReasoning' = <<>>
     ELSE UNCHANGED <<assistantReasoning, currentReasoning>>
  /\ sessions' = [sessions EXCEPT ![s].st = outcome,
                                  ![s].rethrown = CatchRethrows(outcome)]
  /\ UNCHANGED <<messages, chatId, contentStarted, selects, nSelects>>
  /\ UNCHANGED supVars

StopGuardIgnoresLoading == abortController # 0

\* line 123: if (abortController && loading)
StopGuard == abortController # 0 /\ loading

\* lines 122-128: stopStreaming(); the button runs it while sending
\* (Composer.tsx line 278), and a call that fails the guard does nothing
StopStreaming ==
  /\ IF StopGuard
     THEN /\ sessions' = [sessions EXCEPT
                            ![abortController].aborted = TRUE,
                            ![abortController].aborts = @ + 1,
                            ![abortController].atAbort =
                               IF sessions[abortController].aborted
                               THEN @ ELSE sessions[abortController].delivered]
          /\ loading' = FALSE
     ELSE UNCHANGED <<sessions, loading>>
  /\ UNCHANGED <<messages, currentReasoning, chatId, assistantReasoning,
                 contentStarted, abortController, selects, nSelects>>
  /\ UNCHANGED supVars

\* history: the sessions begun so far have seen messages changed from outside
Disturbed ==
  [s \in SessionIds |->
    IF sessions[s].st = "none" THEN sessions[s]
    ELSE [sessions[s] EXCEPT !.touched = TRUE, !.resetSince = TRUE, !.reset = TRUE]]

\* history: another conversation is put on the page, by onNewChat() (fresh) or
\* by onSelectChat()
Switched(old, fresh) ==
  [s \in SessionIds |->
    IF old[s].st = "none" THEN old[s]
    ELSE [old[s] EXCEPT !.switched = TRUE, !.newChatSince = fresh]]

\* lines 131-137: onNewChat
OnNewChat ==
  /\ messages' = <<>>
  /\ currentReasoning' = <<>>
  /\ chatId' = 0
  /\ sessions' = Switched(Disturbed, TRUE)
  /\ UNCHANGED <<loading, assistantReasoning, contentStarted, abortController,
                 selects, nSelects>>
  /\ UNCHANGED supVars

\* the conversations of the sidebar, and what getChatMessages returns for them
SelectableChats == {StoredChat}
StoredMessages(id) ==
  <<[role |-> "user", content |-> <<"q">>], [role |-> "assistant", content |-> <<"a">>]>>

\* lines 150-152: onSelectChat up to its await of getChatMessages
OnSelectChat(id) ==
  /\ OpsUsed < MaxOps
  /\ nSelects' = nSelects + 1
  /\ chatId' = id
  /\ selects' = [selects EXCEPT ![id] = @ + 1]
  /\ sessions' = Switched(sessions, FALSE)
  /\ UNCHANGED <<messages, loading, currentReasoning, assistantReasoning,
                 contentStarted, abortController>>
  /\ UNCHANGED supVars

\* lines 152-156: getChatMessages has answered
SelectLoaded(id) ==
  /\ selects[id] > 0
  /\ selects' = [selects EXCEPT ![id] = @ - 1]
  /\ messages' = StoredMessages(id)
  /\ currentReasoning' = <<>>
  /\ sessions' = Disturbed
  /\ UNCHANGED <<loading, chatId, assistantReasoning, contentStarted,
                 abortController, nSelects>>
  /\ UNCHANGED supVars

\* the main process, not started
SupIdle ==
  /\ profile = "dev"
  /\ pythonPresent = TRUE
  /\ appVersion = "1.0.0"
  /\ archivePresent = TRUE
  /\ launch = 1
  /\ hostState = "running"
  /\ rtExists = FALSE
  /\ rtEntries = {}
  /\ marker = {}
  /\ backendProcess = 0
  /\ backendExtractPromise = 0
  /\ jobs = [j \in StartIds |-> NoJob]
  /\ starts = [s \in StartIds |-> NoStart]
  /\ children = [c \in StartIds |-> "none"]
  /\ callerBlock = FALSE
  /\ unpackCount = 0
  /\ okVersion = ""

ChatInit == SupIdle /\ ChatIdle

ChatNext ==
  \/ \E trigger \in {"button", "enter"} : \E input \in Inputs : \E model \in Models :
       Send(trigger, input, model)
  \/ \E s \in SessionIds : \E chunk \in ContentChunks : OnContent(s, chunk)
  \/ \E s \in SessionIds : \E chunk \in ReasoningChunks : OnReasoning(s, chunk)
  \/ \E s \in SessionIds : OnMeta(s)
  \/ \E s \in SessionIds : \E outcome \in {"ok", "error", "aborted"} : StreamSettle(s, outcome)
  \/ StopStreaming
  \/ OnNewChat
  \/ \E id \in SelectableChats : OnSelectChat(id)
  \/ \E id \in SelectableChats : SelectLoaded(id)

ChatSpec == ChatInit /\ [][ChatNext]_vars

\* ------------------------------------------------------------------------
\* Chat page: properties
\* ------------------------------------------------------------------------

OpenSessions == {s \in SessionIds : sessions[s].st = "open"}
EndedSessions == {s \in SessionIds : sessions[s].st \in {"ok", "error", "aborted"}}

\* the assistant turn of session s, as messages holds it
TurnOf(s) == At(messages, sessions[s].assistantIndex)

\* C3: while the stream of a send() has not settled, no further send() starts
\* a session: at most one stream is open.
C3_SingleActiveSession == Cardinality(OpenSessions) <= 1

\* C4: once stopStreaming() has aborted a session, and as long as nothing but
\* its own onContent has changed messages since it began, the content of its
\* assistant turn is the concatenation of the chunks delivered before the
\* abort: a chunk that arrives after the abort is not applied.
C4_CancelKeepsPartial ==
  \A s \in SessionIds :
    (sessions[s].aborted /\ ~sessions[s].touched) =>
      TurnOf(s) = [role |-> "assistant", content |-> sessions[s].atAbort]

\* C5: while a session is open and nothing but its own onContent has changed
\* messages since it began, the content of its assistant turn is the
\* concatenation, in arrival order, of the chunks delivered to its onContent.
C5_StreamingOrder ==
  \A s \in OpenSessions :
    ~sessions[s].touched =>
      TurnOf(s) = [role |-> "assistant", content |-> sessions[s].delivered]

\* C5 witness: two different chunks have been delivered to an open session.
C5_Witness ==
  \E s \in OpenSessions :
    /\ ~sessions[s].touched
    /\ sessions[s].delivered = <<"a", "b">>

\* no turn of messages holds reasoning text
NoReasoningInContent ==
  \A i \in 1..Len(messages) :
    \A k \in 1..Len(messages[i].content) : messages[i].content[k] \notin ReasoningTokens

OnReasoningStep ==
  \E s \in SessionIds : \E chunk \in ReasoningChunks : OnReasoning(s, chunk)

\* C6: no turn's content ever holds reasoning text, and a step of onReasoning
\* changes neither messages nor assistantReasoning.
C6_ReasoningIsolation ==
  /\ []NoReasoningInContent
  /\ [][OnReasoningStep => (messages' = messages /\ assistantReasoning' = assistantReasoning)]_vars

\* C6 witness: an open session has received content and reasoning, and the
\* reasoning is in currentReasoning.
C6_Witness ==
  \E s \in OpenSessions :
    /\ sessions[s].reasoning # <<>>
    /\ sessions[s].delivered # <<>>
    /\ currentReasoning = sessions[s].reasoning

\* C7: once a session that received reasoning has ended (nothing else having
\* changed messages since it began), assistantReasoning holds that reasoning
\* at the index of the session's assistant turn.
C7_ReasoningFlush ==
  \A s \in EndedSessions :
    (sessions[s].reasoning # <<>> /\ ~sessions[s].touched) =>
      /\ sessions[s].assistantIndex \in DOMAIN assistantReasoning
      /\ assistantReasoning[sessions[s].assistantIndex] = sessions[s].reasoning

\* C14: onNewChat() leaves messages empty and a completed onSelectChat(id)
\* leaves it equal to the stored conversation; and from then until the next
\* send(), a content chunk of a session begun before does not change messages.
C14_WholesaleReplace ==
  [][/\ OnNewChat => messages' = <<>>
     /\ \A id \in SelectableChats : SelectLoaded(id) => messages' = StoredMessages(id)
     /\ \A s \in SessionIds : \A chunk \in ContentChunks :
          (sessions[s].resetSince /\ OnContent(s, chunk)) => messages' = messages]_vars

AtMostOneAbort == \A s \in SessionIds : sessions[s].aborts <= 1

\* the session abortController holds is cancelled or has ended, or there is none
StopTargetDone ==
  \/ abortController = 0
  \/ sessions[abortController].aborted
  \/ sessions[abortController].st # "open"

\* C15: stopStreaming() aborts the controller of a session at most once, and
\* a call made when the session is already cancelled or has ended changes
\* nothing.
C15_CancellationSingleShot ==
  /\ []AtMostOneAbort
  /\ [][(StopTargetDone /\ StopStreaming) => UNCHANGED chatVars]_vars

\* C15 witness: a session was cancelled once and, still unsettled, is what
\* abortController holds: a further stopStreaming() call finds it cancelled.
C15_Witness ==
  /\ abortController # 0
  /\ sessions[abortController].aborts = 1
  /\ sessions[abortController].st = "open"
  /\ ~StopGuard

\* the user turn send() appended for session s, as messages holds it
UserTurnOf(s) == At(messages, sessions[s].assistantIndex - 1)

\* C16: when streamChat rejects (the conversation not reset or replaced since
\* the session began), the session's assistant turn holds exactly the chunks
\* delivered to it, none if there were none; its user turn is kept; send()
\* does not throw; loading is false.
C16_FailureOutcome ==
  [][\A s \in SessionIds :
       (StreamSettle(s, "error") /\ ~sessions[s].reset) =>
         /\ TurnOf(s)' = [role |-> "assistant", content |-> sessions[s].delivered]
         /\ UserTurnOf(s)' = [role |-> "user", content |-> sessions[s].userMsg]
         /\ ~sessions'[s].rethrown
         /\ loading' = FALSE]_vars

\* the turn at the session's index is still the placeholder its send() appended:
\* messages was not reset or replaced since
OwnsTurn(s) == ~sessions[s].reset

\* C19: the assistantIndex send() computes is the index of the empty assistant
\* placeholder that same send() appends; a content chunk of a session changes
\* only that placeholder turn, never another turn (a user turn, a turn of
\* another session or of a loaded conversation), and leaves no hole in messages.
C19_DesignatedTurn ==
  [][/\ \A s \in SessionIds :
          (sessions[s].st = "none" /\ sessions'[s].st = "open") =>
            /\ sessions'[s].assistantIndex = Len(messages') - 1
            /\ TurnOf(s)' = [role |-> "assistant", content |-> <<>>]
     /\ \A s \in SessionIds : \A chunk \in ContentChunks :
          OnContent(s, chunk) =>
            /\ OwnsTurn(s)
            /\ Len(messages') = Len(messages)
            /\ \A k \in 1..Len(messages') :
                 /\ messages'[k] # Hole
                 /\ k # sessions[s].assistantIndex + 1 => messages'[k] = messages[k]]_vars

\* the session has ended: streamChat has settled (success, error), or the user
\* has cancelled it
Terminated(s) == sessions[s].st \notin {"none", "open"} \/ sessions[s].aborted

\* messages is set to the empty list or to a loaded conversation
ReplaceStep == OnNewChat \/ \E id \in SelectableChats : SelectLoaded(id)

\* C25: while the conversation is not reset or replaced, a change of a
\* session's assistant turn puts content + chunk in the place of content, and
\* there is none once the session has terminated; a step that does not reset or
\* replace the conversation leaves every user turn as it is.
C25_ContentMonotoneFinal ==
  [][/\ \A s \in SessionIds :
          (sessions[s].st # "none" /\ OwnsTurn(s)' /\ TurnOf(s)' # TurnOf(s)) =>
            /\ \E chunk \in ContentChunks :
                 TurnOf(s)'.content = TurnOf(s).content \o chunk
            /\ ~Terminated(s)
     /\ ~ReplaceStep =>
          \A k \in 1..Len(messages) :
            messages[k].role = "user" =>
              k <= Len(messages') /\ messages'[k] = messages[k]]_vars

\* C27: while the stream of a session has neither settled nor been aborted,
\* loading is true and abortController holds the controller of that session.
C27_StopStaysAvailable ==
  \A s \in SessionIds :
    (sessions[s].st = "open" /\ ~sessions[s].aborted) =>
      loading /\ abortController = s

\* C28: send() passes streamChat the chatId the page holds, which is null
\* (undefined) for the first send() after onNewChat(); a metadata event of a
\* session begun before another conversation was put on the page leaves chatId
\* as it is; and so does one that repeats the id chatId holds.
C28_ChatIdConsistency ==
  [][/\ \A s \in SessionIds :
          (sessions[s].st = "none" /\ sessions'[s].st = "open") =>
            /\ sessions'[s].chatId = chatId
            /\ (\E t \in SessionIds : sessions[t].newChatSince) => sessions'[s].chatId = 0
     /\ \A s \in SessionIds :
          OnMeta(s) =>
            /\ sessions[s].switched => chatId' = chatId
            /\ MetaId(s) = chatId => chatId' = chatId]_vars

\* text is reasoning session s produced: its reasoning chunks up to some point
ReasoningOf(s, text) ==
  /\ text # <<>>
  /\ Len(text) <= Len(sessions[s].reasoning)
  /\ text = SubSeq(sessions[s].reasoning, 1, Len(text))

\* C29: every key of assistantReasoning is the index of an assistant turn of
\* messages, the turn of a session of the conversation shown, and its value is
\* reasoning that session produced.
C29_ReasoningMapMatches ==
  \A k \in DOMAIN assistantReasoning :
    /\ At(messages, k).role = "assistant"
    /\ \E s \in SessionIds :
         /\ sessions[s].st # "none"
         /\ sessions[s].assistantIndex = k
         /\ OwnsTurn(s)
         /\ ReasoningOf(s, assistantReasoning[k])

====
